------------------------- MODULE TreasuryProperties -------------------------
(* What the treasury promises about the float of Treasury, and the read    *)
(* models that report it: dashboard.ts, yield-attribution.ts, receipt.ts.  *)
EXTENDS Treasury, FiniteSets, Functions

Positions(S) == {p \in Payments : position[p].status \in S}
AnyStatus == {"SWEPT_IN", "SWEPT_OUT", "FAILED"}

Cents(x) == Cent * Round(x, Cent)

\* A column of the positions in one of the statuses S, added up.
Stored(f, S) == SumFunction([p \in Positions(S) |-> position[p][f]])

\* loadYieldDashboard, its money in units.
Dashboard ==
  [inYield    |-> Cents(Stored("principal", {"SWEPT_IN"})),
   accrued    |-> Stored("accrued", AnyStatus),
   fee        |-> Stored("fee", AnyStatus),
   net        |-> Stored("accrued", AnyStatus) - Stored("fee", AnyStatus),
   active     |-> Cardinality(Positions({"SWEPT_IN"})),
   unwound    |-> Cardinality(Positions({"SWEPT_OUT"})),
   failed     |-> Cardinality(Positions({"FAILED"}))]

\* A row of buildYieldAttribution.
AttributionRow(p) ==
  [status |-> position[p].status, principal |-> Cents(position[p].principal),
   accrued |-> position[p].accrued, fee |-> position[p].fee,
   net |-> position[p].accrued - position[p].fee]

\* The totals it sums from its rows, for the one yield asset there is.
Attribution ==
  LET rows == Positions(AnyStatus)
      Column(f) == SumFunction([p \in rows |-> AttributionRow(p)[f]])
      Count(s) == Cardinality({p \in rows : AttributionRow(p).status = s})
  IN  [principal |-> Column("principal"), accrued |-> Column("accrued"), fee |-> Column("fee"),
       net |-> Column("accrued") - Column("fee"),
       active |-> Count("SWEPT_IN"), unwound |-> Count("SWEPT_OUT"), failed |-> Count("FAILED")]

\* The files of the report: rows and totals, the PDF leaving out two of the counts
\* and the principal.
AttributionCsv ==
  [rows |-> [p \in Positions(AnyStatus) |-> AttributionRow(p)], totals |-> Attribution]

AttributionDoc ==
  [summary |-> [f \in {"accrued", "fee", "net", "active"} |-> Attribution[f]],
   rows    |-> [p \in Positions(AnyStatus) |-> AttributionRow(p)]]

\* GET /api/reports/yield
AttributionDownload(format) == IF format = "pdf" THEN AttributionDoc ELSE AttributionCsv

\* The page of the report, for an ADMIN, over the files' query: without a position
\* there is no asset, and the cards say "0".
AttributionPage(role) ==
  IF role # "ADMIN" THEN [error |-> 404]
  ELSE [cards |-> [positions |-> Cardinality(Positions(AnyStatus)), inYield |-> Attribution.active,
                   accrued |-> IF Positions(AnyStatus) = {} THEN 0 ELSE Attribution.accrued,
                   net     |-> IF Positions(AnyStatus) = {} THEN 0 ELSE Attribution.net],
        rows  |-> [p \in Positions(AnyStatus) |-> AttributionRow(p)]]

\* (fault) The fee is taken at the tenant's current rate.
ReceiptYieldAtCurrentRate(p) ==
  LET q == position[p] IN
  [fee |-> Round(q.accrued * config.feeBps, 10000),
   net |-> Round(q.accrued * (10000 - config.feeBps), 10000),
   slippage |-> IF q.status = "NONE" THEN 0 ELSE
                (q.principal - q.sweptIn)
                + (IF q.sweptOut = 0 THEN 0 ELSE q.principal + q.accrued - q.sweptOut)]

\* buildYieldBlock derives the fee and the net again, and rounds each on its own.
ReceiptYield(p) ==
  LET q == position[p] IN
  [fee |-> Round(q.accrued * q.feeBps, 10000),
   net |-> Round(q.accrued * (10000 - q.feeBps), 10000),
   slippage |-> IF q.status = "NONE" THEN 0 ELSE
                (q.principal - q.sweptIn)
                + (IF q.sweptOut = 0 THEN 0 ELSE q.principal + q.accrued - q.sweptOut)]

\* The fee falls exactly between two units.
Tie(p) == (position[p].accrued * position[p].feeBps) % 10000 = 5000

-----------------------------------------------------------------------------
\* "Figures come straight from the stored YieldPosition ... so the report never
\* re-derives / drifts": whatever failed, dashboard and report agree on every
\* position, though the rate changes in between and a FAILED position may have been
\* swept out; the cells of the report's files add up to what both and the report's
\* page print as totals, and no tenant is charged more than it earned.  A receipt
\* states the same fee.  Its net it derives again, from an unrounded fee
\* (receipt.ts:69), against its own comment (receipt.ts:64): it is the report's, and
\* one unit more on a tie.
FiguresAgree ==
  /\ \A f \in {"accrued", "fee", "net", "active", "unwound", "failed"} :
       Dashboard[f] = Attribution[f]
  /\ LET csv == AttributionDownload("csv") pdf == AttributionDownload("pdf")
         page == AttributionPage("ADMIN")
         Cells(f) == SumFunction([p \in DOMAIN csv.rows |-> csv.rows[p][f]])
     IN /\ \A f \in {"accrued", "fee", "net"} : pdf.summary[f] = Cells(f)
        /\ page.cards.accrued = Cells("accrued") /\ page.cards.net = Cells("net")
        /\ page.cards.positions = Cardinality(DOMAIN pdf.rows) /\ page.rows = pdf.rows
        /\ Cardinality(DOMAIN pdf.rows) = csv.totals.active + csv.totals.unwound + csv.totals.failed
        /\ \A p \in DOMAIN csv.rows : csv.rows[p].net >= 0
  /\ Attribution.principal >= Dashboard.inYield - Cent * Cardinality(Payments)
  /\ \A p \in Positions(AnyStatus) :
       /\ ReceiptYield(p).fee = AttributionRow(p).fee
       /\ ReceiptYield(p).net = AttributionRow(p).net + (IF Tie(p) THEN 1 ELSE 0)
       /\ ReceiptYield(p).slippage >= 0

\* sweepOut is "idempotent": what an unwind recorded is never recorded again by a
\* concurrent or a later payout with another time held, nor lost by its fallback.
RecordedOnce ==
  [][\A p \in Payments :
       position[p].sweptOut # 0 =>
         [position'[p] EXCEPT !.status = position[p].status] = position[p]]_vars

\* Once a payment is paid out its float has left the yield asset, or the position is
\* flagged FAILED for the operator, whatever failed or ran concurrently.  The exception
\* is a payout that ran before createPayment had swept the payment in: it found no
\* position, and the float then stays swept in until somebody pays out again.
FloatComesBack ==
  \A p \in Payments : paid[p] /\ position[p].status = "SWEPT_IN" => p \in unseen

\* "Liquidity is sacred ... the payout window is never missed": a payout that has begun
\* to unwind pays, whether the unwind succeeds, loses to another one or fails.  The
\* exceptions are its own: that very request died, or the write of its fallback failed,
\* after which sweepOut throws (against sweep.ts:121) and the route does not pay.
PayoutNeverBlocked ==
  \A r \in Requests : \A p \in Payments :
    (At(r, "unwind") /\ request[r].payment = p) ~> (paid[p] \/ r \in dropped)
=============================================================================
