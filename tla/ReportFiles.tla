---------------------------- MODULE ReportFiles -----------------------------
(***************************************************************************)
(* The files a report is downloaded as (lib/reports/csv.ts, the renderers  *)
(* of the reports and their routes): a CSV of typed cells and a PDF        *)
(* of money phrases, made of the same document.  Headings, widths and      *)
(* dates are left out.                                                     *)
(***************************************************************************)
EXTENDS Documents, Sequences

\* escapeCell: null is empty, and a value that begins with a minus sign is made
\* a text by an apostrophe.  Only an amount can begin with one here.
Amounts == {"sourceAmount", "targetAmount", "realized", "reference", "gainLoss"}

Cell(column, value) ==
  IF value = None THEN [kind |-> "empty", value |-> None]
  ELSE [kind |-> IF column \in Amounts /\ value < 0 THEN "text" ELSE "plain", value |-> value]

\* toCsv: one line per row, one cell per column.
Table(columns, rows) ==
  [r \in DOMAIN rows |-> [c \in columns |-> Cell(c, rows[r][c])]]

\* A PDF prints an amount with its currency, or nothing.
Money(amount, currency) == IF amount = None THEN <<>> ELSE <<amount, currency>>

\* renderReportPdf: where the rows of a report's tables are printed.  Points;
\* a landscape A4 page ends at Bottom, and what needs more space goes to the next.
Bottom == 555
Margin == 40

EnsureSpace(at, needed) ==
  IF at.y + needed > Bottom THEN [page |-> at.page + 1, y |-> Margin] ELSE at

Below(at, points) == [at EXCEPT !.y = @ + points]

\* After the summary, two lines beside each other.
Top(summary) ==
  [page |-> 1, y |-> 92 + IF summary = 0 THEN 0 ELSE 16 * ((summary - 1) \div 2) + 28]

\* The cursor after each row of a table whose heading starts at "at".
RowCursors(at, rows) ==
  LET after[r \in 0 .. rows] ==
        IF r = 0 THEN Below(EnsureSpace(at, 48), 35)
        ELSE Below(EnsureSpace(after[r - 1], 14), 13)
  IN after

\* The positions of the rows, of all the tables.
RenderReportPdf(summary, tables) ==
  LET from[t \in 0 .. Len(tables)] ==
        IF t = 0 THEN Top(summary)
        ELSE LET last == RowCursors(from[t - 1], tables[t])[tables[t]]
             IN Below(last, IF tables[t] = 0 THEN 30 ELSE 14)
  IN [t \in DOMAIN tables |->
        [r \in 1 .. tables[t] |-> EnsureSpace(RowCursors(from[t - 1], tables[t])[r - 1], 14)]]

-----------------------------------------------------------------------------
(* The reconciliation statement. *)

SettledColumns == {"sourceAsset", "sourceAmount", "targetCurrency", "targetAmount",
                   "txHash", "bankRef", "receiptId"}

\* What both files print below or above the rows.
StatementTotals(s) ==
  [settled |-> Cardinality(DOMAIN s.settled), exceptions |-> Cardinality(s.exceptions),
   sources |-> s.sources, paidOut |-> s.paidOut]

StatementCsv(s) ==
  [rows |-> Table(SettledColumns, s.settled), exceptions |-> s.exceptions,
   totals |-> StatementTotals(s)]

StatementDoc(s) ==
  [rows |-> [p \in DOMAIN s.settled |->
               [source |-> Money(s.settled[p].sourceAmount, s.settled[p].sourceAsset),
                target |-> Money(s.settled[p].targetAmount, s.settled[p].targetCurrency),
                txHash |-> s.settled[p].txHash, bankRef |-> s.settled[p].bankRef]],
   exceptions |-> s.exceptions, totals |-> StatementTotals(s)]

\* GET /api/reports/reconciliation: anything but "pdf" is a CSV.
StatementDownload(ledger, q) ==
  LET s == Statement(Within(ledger, ParseDateRange(q.from, q.to, q.month)))
  IN IF q.format = "pdf" THEN StatementDoc(s) ELSE StatementCsv(s)

-----------------------------------------------------------------------------
(* The FX summary. *)

FxColumns == {"sourceAsset", "sourceAmount", "targetCurrency", "realized", "reference",
              "gainLoss", "txHash", "bankRef"}

FxCsv(fx) ==
  [rows |-> Table(FxColumns, fx.rows),
   aggregates |-> [c \in DOMAIN fx.aggregates |->
                     [a \in DOMAIN fx.aggregates[c] |-> Cell(a, fx.aggregates[c][a])]]]

FxDoc(fx) ==
  [rows |-> [p \in DOMAIN fx.rows |->
               LET r == fx.rows[p] IN
               [source |-> Money(r.sourceAmount, r.sourceAsset),
                realized |-> Money(r.realized, r.targetCurrency),
                reference |-> Money(r.reference, r.targetCurrency), gainLoss |-> r.gainLoss]],
   aggregates |-> [c \in DOMAIN fx.aggregates |->
                     [a \in {"realized", "gainLoss"} |-> Money(fx.aggregates[c][a], c[2])]]]

\* GET /api/reports/fx
FxDownload(ledger, q) ==
  LET fx == FxSummary(Within(ledger, ParseDateRange(q.from, q.to, q.month)))
  IN IF q.format = "pdf" THEN FxDoc(fx) ELSE FxCsv(fx)

-----------------------------------------------------------------------------
(* The disclosure pack: its entries and what the view key revealed of them. *)

Pack(ledger, revealed) ==
  [entries |-> [p \in DOMAIN ledger |-> Entry(ledger[p])], revealed |-> revealed]

PackColumns == {"status", "txHash", "bankRef", "receiptId"}

PackCsv(pack) ==
  [rows |-> Table(PackColumns, pack.entries), disclosed |-> pack.revealed]

\* Two tables over the same entries, and a count in the summary.
PackDoc(pack) ==
  [settlement |-> [p \in DOMAIN pack.entries |-> pack.entries[p]],
   disclosed  |-> [p \in DOMAIN pack.entries |-> p \in pack.revealed],
   revealed   |-> Cardinality(pack.revealed)]

\* GET /api/reports/disclosure, once the pack is built.
PackDownload(pack, format) ==
  CASE format = "pdf" -> PackDoc(pack) [] format = "json" -> pack [] OTHER -> PackCsv(pack)

-----------------------------------------------------------------------------
(* The attestation. *)

\* The facts under the signature; the counterparty, the corridor and the legs
\* are not among them.
SignedFacts == {"sourceAsset", "sourceAmount", "targetCurrency", "targetAmount",
                "txHash", "bankRef", "receiptId"}

\* An HMAC: no two sets of facts have the same.
Sign(att) == <<"HMAC-SHA256", Restrict(att, SignedFacts)>>

Signed(att) == With(att, "signature", Sign(att))

VerifyAttestation(doc) == doc.signature = Sign(doc)

\* The PDF leaves out an empty bank reference and adds the legs as they are.
AttestationDoc(doc, p) ==
  [paid |-> Money(doc.sourceAmount, doc.sourceAsset),
   received |-> Money(doc.targetAmount, doc.targetCurrency),
   bankRef |-> doc.bankRef, receiptId |-> doc.receiptId,
   legs |-> {LegTx(p), LegRef(p)} \ {None},
   proof |-> [txHash |-> doc.txHash, signature |-> doc.signature]]

\* GET /api/reports/attestation: 400, 404, 409 or the document.
AttestationDownload(ledger, payment, format) ==
  IF payment = None THEN [error |-> 400]
  ELSE IF payment \notin DOMAIN ledger THEN [error |-> 404]
  ELSE LET p == ledger[payment] doc == Signed(Attestation(p)) IN
       IF p.status # "SETTLED" THEN [error |-> 409]
       ELSE IF format = "json" THEN doc ELSE AttestationDoc(doc, p)
=============================================================================
