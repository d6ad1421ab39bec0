------------------------- MODULE ReportsProperties --------------------------
(* What must hold of the documents and disclosures of Reports.             *)
EXTENDS Reports, ReconciliationProperties, Sequences

INSTANCE ReportPages
Demo == INSTANCE DemoData

\* The null of a field is none of the amounts, currencies, receipts and ids it can
\* hold, nor a receipt or a leg.
Currencies == {"USDC", "XLM", "PHP"}
SeededIds  == {"f1", "f2", "p1", "b1", "w1", "w2", "b2", "q1", "q2"}

ASSUME NullAssumption ==
  /\ None \notin Int \cup Currencies \cup DOMAIN Demo!DemoLedger
                 \cup ({"rcpt"} \X (Payments \cup SeededIds))
  /\ \A p \in Payments, e \in Events :
       LET rows == RowOf(p, "SETTLED", "CONFIRMED", e, e) IN None \notin {rows.receipt, rows.fiat}

\* The rows of a tenant's payments, by the columns the reports read.
LedgerOf(statuses, chain, fiat, paid) ==
  [p \in {q \in Payments : statuses[q] # "NONE"} |->
     RowOf(p, statuses[p], chain[p], fiat[p], paid[p])]

\* The live rows; a tenant's reports are made of them and of seeded ones.
Live == LedgerOf(status, onchainLeg, fiatLeg, receipt)

\* Every ledger that those columns could hold.
BankEvents == {e \in Events : e.kind # "chain"}

Ledgers == {LedgerOf(statuses, chain, fiat, paid) :
              statuses \in [Payments -> PaymentStatus],
              chain \in [Payments -> {"NONE", "PENDING", "CONFIRMED"}],
              fiat \in [Payments -> BankEvents \cup {None}],
              paid \in [Payments -> BankEvents \cup {None}]}

Month == [from |-> -7, to |-> 23]   \* the month of the seed's base date, from day 0

\* Requested periods: the month, asked with no bounds, and everything up to day
\* 0, asked backwards.
Periods ==
  {[from |-> None, to |-> None, month |-> Month], [from |-> 0, to |-> -60, month |-> Month]}

Ranges == {ParseDateRange(q.from, q.to, q.month) : q \in Periods}

\* The amount received is the receipt's in every document.  Until a receipt with
\* figures is stored each tells what it has: the statement the quote, the
\* attestation the quote or else what was paid, the FX summary the FIAT leg.
SameReceived(p, settled, attested, fx) ==
  LET received == Stored(p, "targetAmount") IN
  IF received # None
    THEN /\ settled.targetAmount = received /\ attested.targetAmount = received
         /\ \A f \in fx : f.realized = received
    ELSE /\ settled.targetAmount = p.quote
         /\ attested.targetAmount = Or(p.quote, settled.sourceAmount)
         /\ \A f \in fx : f.realized = Or(p.fiat.amount, Or(p.quote, 0))

\* One document tells no other transaction, bank reference, receipt or amount paid
\* than another, whatever the legs became since.
SameFigures(ledger, p, statement, fx) ==
  LET r == statement.settled[p] a == Attestation(ledger[p]) e == Entry(ledger[p])
      listed == {fx.rows[q] : q \in {p} \cap DOMAIN fx.rows}
  IN /\ {r.txHash, a.txHash, e.txHash} = {r.txHash}
     /\ {r.bankRef, a.bankRef, e.bankRef} = {r.bankRef}
     /\ {r.receiptId, a.receiptId, e.receiptId} = {r.receiptId}
     /\ <<r.sourceAsset, r.sourceAmount>> = <<a.sourceAsset, a.sourceAmount>>
     /\ \A f \in listed : /\ f.bankRef = r.bankRef /\ f.txHash = r.txHash
                           /\ f.sourceAmount = r.sourceAmount
     /\ SameReceived(ledger[p], r, a, listed)

\* A report of any period lists each of its payments once, as settled or as an
\* exception, and the documents tell the same of it; the FX gains are those of
\* its rows.
Agree(ledger) ==
  \A range \in Ranges :
    LET scope == Within(ledger, range)
        statement == Statement(scope)
        fx == FxSummary(scope)
        listed == {x[1] : x \in statement.exceptions}
        settled == statement.settled
    IN /\ listed \cap DOMAIN settled = {}
       /\ listed \cup DOMAIN settled = DOMAIN scope
       /\ DOMAIN fx.rows \subseteq DOMAIN settled
       /\ \A p \in DOMAIN settled : SameFigures(ledger, p, statement, fx)
       /\ \A c \in DOMAIN fx.aggregates :
            LET pair == {p \in DOMAIN fx.rows : <<settled[p].sourceAsset, settled[p].targetCurrency>> = c}
            IN fx.aggregates[c].gainLoss = Total(fx.rows, pair, "gainLoss")

\* Cells of a column added up, by the currency in another one; empty ones skipped.
ColumnSums(rows, value, currency) ==
  LET filled == {p \in DOMAIN rows : rows[p][value].value # None}
      of(c)  == {p \in filled : rows[p][currency].value = c}
  IN [c \in {rows[p][currency].value : p \in filled} |->
        SumFunction([p \in of(c) |-> rows[p][value].value])]

Both(csv, amount, currency) == <<csv[amount].value, csv[currency].value>>

\* The two files of a period print the same rows, and what they print as totals
\* is what the cells of the CSV add up to (a loss being a text, by its number).
FilesAgree(ledger) ==
  \A period \in Periods :
    LET q(format) == With(period, "format", format)
        csv   == StatementDownload(ledger, q("csv"))
        pdf   == StatementDownload(ledger, q("pdf"))
        fxCsv == FxDownload(ledger, q("csv"))
        fxPdf == FxDownload(ledger, q("pdf"))
    IN /\ DOMAIN csv.rows = DOMAIN pdf.rows
       /\ \A p \in DOMAIN csv.rows :
            /\ pdf.rows[p].source = Both(csv.rows[p], "sourceAmount", "sourceAsset")
            /\ pdf.rows[p].target # <<>> =>
                 pdf.rows[p].target = Both(csv.rows[p], "targetAmount", "targetCurrency")
       /\ pdf.totals.sources = ColumnSums(csv.rows, "sourceAmount", "sourceAsset")
       /\ pdf.totals.paidOut = ColumnSums(csv.rows, "targetAmount", "targetCurrency")
       /\ \A p \in DOMAIN fxCsv.rows :
            fxPdf.rows[p].realized = Both(fxCsv.rows[p], "realized", "targetCurrency")
       /\ \A c \in DOMAIN fxPdf.aggregates :
            LET pair == {p \in DOMAIN fxCsv.rows : c = <<fxCsv.rows[p].sourceAsset.value,
                                                       fxCsv.rows[p].targetCurrency.value>>}
            IN fxPdf.aggregates[c].gainLoss[1] =
                 SumFunction([p \in pair |-> fxCsv.rows[p].gainLoss.value])

\* An attestation is issued for settled payments only; it verifies, and with the
\* facts of another payment under its signature it does not.
AttestationsVerify(ledger) ==
  LET doc(p) == AttestationDownload(ledger, p, "json")
      issued == {p \in DOMAIN ledger : ledger[p].status = "SETTLED"}
  IN /\ \A p \in DOMAIN ledger \ issued : doc(p) = [error |-> 409]
     /\ \A p \in issued : /\ VerifyAttestation(doc(p))
                          /\ AttestationDownload(ledger, p, "pdf").paid =
                               <<SettledRow(ledger[p]).sourceAmount, SettledRow(ledger[p]).sourceAsset>>
     /\ \A p, r \in issued :
          Attestation(ledger[p]) # Attestation(ledger[r]) =>
            ~VerifyAttestation([doc(p) EXCEPT !.signature = doc(r).signature])

\* The pack's files tell of the same payments what the statement tells.
PacksAgree(ledger) ==
  LET pack == Pack(ledger, {})
      csv  == PackDownload(pack, "csv")
      pdf  == PackDownload(pack, "pdf")
      settled == Statement(ledger).settled
  IN \A p \in DOMAIN settled :
       csv.rows[p].bankRef.value = settled[p].bankRef /\ pdf.settlement[p].txHash = settled[p].txHash

\* Following the cursors of a list, whatever its page size and filter, shows each
\* payment once, newest first, to a user as to the API; and what the dashboard
\* and the details say of the payments is what the reports say.
PageOf(reader, ledger, q) ==
  IF reader = "user" THEN ListPayments(ledger, q) ELSE ListPaymentsApi(ledger, q)

Walk(reader, ledger, q) ==
  LET after[n \in 0..Cardinality(DOMAIN ledger)] ==
        IF n = 0 THEN PageOf(reader, ledger, q)
        ELSE LET seen == after[n - 1]
                 next == PageOf(reader, ledger, [q EXCEPT !.cursor = seen.nextCursor])
             IN IF seen.nextCursor = None THEN seen
                ELSE [items |-> seen.items \o next.items, nextCursor |-> next.nextCursor]
  IN after[Cardinality(DOMAIN ledger)]

ListsAgree(ledger) ==
  \A s \in {None, "SETTLED", "PENDING"}, n \in {None, 1, 3, 7} :
    LET q     == [status |-> s, limit |-> n, cursor |-> None]
        shown == Walk("user", ledger, q)
        items == shown.items
    IN /\ Walk("api", ledger, q) = shown /\ shown.nextCursor = None
       /\ {items[i] : i \in DOMAIN items} = Wanted(ledger, q)
       /\ \A i, j \in DOMAIN items : i < j => /\ items[i] # items[j]
                                             /\ ledger[items[i]].day >= ledger[items[j]].day

ViewsAgree(ledger) ==
  LET kpis == DashboardKpis(ledger) statement == Statement(ledger)
      badge(b) == {p \in DOMAIN ledger : ToBadgeState(ledger[p].status) = b}
  IN /\ kpis.volume = SumFunction(statement.sources)
     /\ badge("SETTLED") = DOMAIN statement.settled
     /\ kpis.pending + Cardinality(HasStatus(ledger, "DRAFT")) =
          Cardinality(UNION {badge(b) : b \in {"PENDING", "VERIFIED", "RECONCILING"}})
     /\ \A p \in DOMAIN ledger :
          LET d == GetPaymentById(ledger, p) e == Entry(ledger[p]) IN
          /\ d.hasReceipt <=> e.receiptId # None
          /\ Summary(ledger[p]).settled <=> p \in DOMAIN statement.settled

\* The details show the legs as they are now, the documents what the receipt
\* holds; of the seeded rows that is the same.
LegsShown(ledger) ==
  \A p \in DOMAIN ledger :
    LET legs == GetPaymentById(ledger, p).legs e == Entry(ledger[p]) IN
    /\ legs.ONCHAIN # None => legs.ONCHAIN.txHash = e.txHash
    /\ legs.FIAT # None => legs.FIAT.bankRef = e.bankRef

\* A report's page, for whoever may see it, shows the rows of the files behind its
\* own links, whichever bounds the period was asked with, and its cards are totals
\* of theirs.
PagesAgree(ledger) ==
  \A q \in Periods :
    LET page == ReportsPage("ADMIN", ledger, q)
        fx   == FxPage("ADMIN", ledger, q)
        pdf   == StatementDownload(ledger, With(page.link, "format", "pdf"))
        fxPdf == FxDownload(ledger, With(fx.link, "format", "pdf"))
    IN /\ "error" \in DOMAIN ReportsPage("MEMBER", ledger, q)
       /\ "error" \in DOMAIN FxPage("MEMBER", ledger, q)
       /\ pdf = StatementDownload(ledger, With(q, "format", "pdf"))
       /\ page.cards.settled = Cardinality(DOMAIN pdf.rows)
       /\ page.cards.exceptions = Cardinality(pdf.exceptions)
       /\ \A c \in DOMAIN page.cards.paidOut : page.cards.paidOut[c] = pdf.totals.paidOut[c]
       /\ DOMAIN page.rows = DOMAIN pdf.rows
       /\ \A p \in DOMAIN pdf.rows : \A f \in {"source", "target", "txHash"} :
            page.rows[p][f] = pdf.rows[p][f]
       /\ fx.cards.payments = Cardinality(DOMAIN fxPdf.rows)
       /\ DOMAIN fx.rows = DOMAIN fxPdf.rows
       /\ \A p \in DOMAIN fxPdf.rows : fx.rows[p].realized = fxPdf.rows[p].realized
       /\ \A c \in DOMAIN fx.aggregates : fx.aggregates[c].gainLoss = fxPdf.aggregates[c].gainLoss

\* The page of a payment offers the attestation where it is issued, its receipt
\* panel tells what the attestation tells, and somebody who watched a payment
\* settle sees what somebody sees who loads the page afterwards.
PaymentPagesAgree(ledger) ==
  \A p \in DOMAIN ledger :
    LET page   == PaymentPage(ledger, p)
        panel  == page.screen.panel
        before == [ledger[p] EXCEPT !.status = "RECONCILING", !.fiat = None, !.receipt = None]
        after  == Polled(TriggerPayout(Lifecycle(before)), ledger[p])
    IN /\ \A format \in {"pdf", "json"} :
            format \in page.links <=>
              "error" \notin DOMAIN AttestationDownload(ledger, p, format)
       /\ "error" \notin DOMAIN panel =>
            LET doc == AttestationDownload(ledger, p, "pdf") IN
            /\ panel.paid = doc.paid /\ panel.received = doc.received
            /\ panel.txHash = doc.proof.txHash /\ panel.bankRef = doc.bankRef
       /\ panel = Locked => ledger[p].status # "SETTLED" \/ ReceiptApi(ledger, p) = NotFound
       /\ ledger[p].status = "SETTLED" => Screen(after) = page.screen

\* No row is printed over another or below the end of a page.
PagesHoldTheirRows ==
  \A summary \in {0, 5, 14}, n \in {0, 1, 23, 33}, m \in {0, 1, 33} :
    LET rows == RenderReportPdf(summary, <<n, m>>)
        all  == [i \in 1 .. n + m |-> IF i <= n THEN rows[1][i] ELSE rows[2][i - n]]
    IN /\ \A i \in DOMAIN all : all[i].y + 13 <= Bottom
       /\ \A i \in 2 .. n + m :
            \/ all[i].page > all[i - 1].page
            \/ all[i].page = all[i - 1].page /\ all[i].y >= all[i - 1].y + 13

\* What is told of a ledger's payments, whatever happens to them.
ReportsAgree(ledger) ==
  /\ Agree(ledger) /\ FilesAgree(ledger) /\ AttestationsVerify(ledger) /\ PacksAgree(ledger)
  /\ ViewsAgree(ledger) /\ PaymentPagesAgree(ledger)

\* The ledgers of which that holds.  The rows in them are constant, so TLC looks at
\* the documents of each ledger once, however many states it is the live one in.
AgreeingLedgers == {ledger \in Ledgers : ReportsAgree(ledger)}

\* Reports, files, pages and lists of the seeded data.
DemoAgrees == /\ ReportsAgree(Demo!DemoLedger) /\ LegsShown(Demo!DemoLedger)
              /\ ListsAgree(Demo!DemoLedger) /\ PagesAgree(Demo!DemoLedger) /\ PagesHoldTheirRows

\* A completion that came after the receipt was written is in the FIAT leg by now.
Superseded(p) ==
  receipt[p] # None /\ fiatLeg[p] # None /\ receipt[p].id # fiatLeg[p].id

\* The details name the bank reference of the documents, unless a later event has
\* rewritten the leg under the receipt.  The gain the FX summary shows of a payment
\* that has no receipt is within the tolerance it was settled with, unless a later
\* event has made the leg one that would not settle it.
LegsAreTold ==
  \A p \in DOMAIN Live :
    LET leg == GetPaymentById(Live, p).legs.FIAT IN
    /\ leg # None => (leg.bankRef = Entry(Live[p]).bankRef <=> ~Superseded(p))
    /\ receipt[p] = None /\ fiatLeg[p] \in Completions /\ Quoted[p] > 0 =>
         100 * FxRow(Live[p]).gainLoss \in -Quoted[p] .. Quoted[p]

\* reconciliation.ts:13 "the statement never re-derives (and therefore never
\* drifts from) the receipt the customer already holds": in whatever order a
\* payment is settled, receipted, hit by a late event, reset and seeded again,
\* the statement lists it exactly once; statement, FX summary, attestation, pack,
\* files and dashboard tell the same transaction, bank reference, receipt and
\* amount paid of it, and the same amount received once its receipt is stored
\* (what each tells before that is said by SameReceived, and the details by
\* LegsAreTold); every attestation verifies, and the gains and sums add up.
DocumentsAgree == Live \in AgreeingLedgers /\ LegsAreTold

\* The documents of the seeded data agree as well; beside that, following the
\* cursors of a list shows each payment once, the pages show what the files behind
\* their links print, the details show the legs the documents tell of, and no row is
\* printed over another.  The rows are constant, so the first state is enough to
\* look at them.
SeededDocumentsAgree == ReportsInit => DemoAgrees

\* disclosure.ts:206 "shielded data is never delivered without its audit trail",
\* and disclosure-link.ts:22 of the links: every answer that disclosed something
\* is covered by an audit row of its own for that payment, with requests that
\* overlap and die anywhere.
DisclosuresAudited == \A x \in AuditRows : owed[x] >= 0

\* disclosure-link.ts:45 "rotates the token [...], invalidating the old URL" and
\* :20 "expired/revoked/unknown tokens all render an identical invalid result":
\* once rotated, revoked or expired, a token never opens anything again, however
\* views that had begun before go on.
DeadLinksStayDead == [][\A t \in 1 .. minted : ~Opens(t) => ~Opens(t)']_allVars
=============================================================================
