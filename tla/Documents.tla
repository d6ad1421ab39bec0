----------------------------- MODULE Documents ------------------------------
(***************************************************************************)
(* The documents Trexure writes about payments (lib/reports): the          *)
(* settlement statement, the FX summary, the attestation of one payment    *)
(* and the entries of a disclosure pack, as functions of the rows each     *)
(* builder reads.  Each of the four chooses for itself, field by field,    *)
(* between the stored Receipt.json, the legs and the Payment columns.      *)
(*                                                                         *)
(* Wording, formats and files (CSV, JSON, PDF) are left out; PHP is in     *)
(* centavos, dates are days.                                               *)
(***************************************************************************)
EXTENDS Integers, FiniteSetsExt, Functions

CONSTANT None   \* a field that is null

-----------------------------------------------------------------------------
(* The rows a report reads; method FIAT is a null payoutMethod.             *)

\* What Receipt.json holds; a demo batch's receipt has no figures at all.
Receipt(id, asset, paid, currency, received, tx, ref) ==
  [id |-> id, sourceAsset |-> asset, sourceAmount |-> paid,
   targetCurrency |-> currency, targetAmount |-> received, txHash |-> tx, bankRef |-> ref]

BareReceipt(id) == Receipt(id, None, None, None, None, None, None)

Or(x, y) == IF x = None THEN y ELSE x

With(r, field, value) ==
  [f \in DOMAIN r \cup {field} |-> IF f = field THEN value ELSE r[f]]

\* r.<field> of the stored receipt, or null.
Stored(p, field) == IF p.receipt = None THEN None ELSE p.receipt[field]

LegTx(p)  == IF p.onchain = None THEN None ELSE p.onchain.txHash
LegRef(p) == IF p.fiat = None THEN None ELSE p.fiat.bankRef
Confirmed(p) == p.onchain # None /\ p.onchain.status = "CONFIRMED"

-----------------------------------------------------------------------------
(* Periods: inclusive ranges of days.                                       *)

\* A missing bound is the month's; a reversed range is swapped.
ParseDateRange(from, to, month) ==
  LET f == Or(from, month.from) t == Or(to, month.to)
  IN IF f > t THEN [from |-> t, to |-> f] ELSE [from |-> f, to |-> t]

Within(ledger, range) ==
  Restrict(ledger, {p \in DOMAIN ledger : ledger[p].day \in range.from .. range.to})

HasStatus(ledger, s) == {p \in DOMAIN ledger : ledger[p].status = s}

-----------------------------------------------------------------------------
(* R1, the reconciliation statement.                                        *)

SettledRow(p) ==
  [sourceAsset    |-> Or(Stored(p, "sourceAsset"), p.asset),
   sourceAmount   |-> Or(Stored(p, "sourceAmount"), p.source),
   targetCurrency |-> Or(Stored(p, "targetCurrency"), p.target),
   targetAmount   |-> Or(Stored(p, "targetAmount"), p.quote),
   txHash         |-> Or(Stored(p, "txHash"), LegTx(p)),
   bankRef        |-> Or(Stored(p, "bankRef"), LegRef(p)),
   receiptId      |-> Stored(p, "id")]

\* The money is with the custody account and its bank payout failed.
InCustody(p) == p.status = "FAILED" /\ p.method = "POOL_BANK" /\ Confirmed(p)

\* Confirmed on chain, to be paid to a bank, and no fiat leg.
Drifted(p) ==
  /\ p.status # "SETTLED" /\ p.method # "POOL_WALLET"
  /\ Confirmed(p) /\ p.fiat = None

\* The reason is the status, refined by custody and drift and by a float
\* that is still swept in.
ExceptionReason(p) ==
  {p.status}
  \cup (IF InCustody(p) THEN {"custody"} ELSE {})
  \cup (IF Drifted(p) THEN {"no fiat leg"} ELSE {})
  \cup (IF p.position = "SWEPT_IN" THEN {"float in yield"} ELSE {})

\* A settled payment whose unwind failed is an exception as well.
YieldException(p) == p.status = "SETTLED" /\ p.position = "FAILED"

\* A column of some of the rows, added up.
Total(rows, some, value) == SumFunction([p \in some |-> rows[p][value]])

\* Sums an amount per currency over rows, skipping rows without one.
SumByCurrency(rows, currency, value) ==
  LET priced == {p \in DOMAIN rows : rows[p][value] # None}
  IN [c \in {rows[p][currency] : p \in priced} |->
        Total(rows, {p \in priced : rows[p][currency] = c}, value)]

Statement(ledger) ==
  LET settled == HasStatus(ledger, "SETTLED")
      rows    == [p \in settled |-> SettledRow(ledger[p])]
      open    == {<<p, ExceptionReason(ledger[p])>> : p \in DOMAIN ledger \ settled}
      unwound == {<<p, {"unwind failed"}>> : p \in {q \in settled : YieldException(ledger[q])}}
  IN [settled    |-> rows,
      exceptions |-> open \cup unwound,
      sources    |-> SumByCurrency(rows, "sourceAsset", "sourceAmount"),
      paidOut    |-> SumByCurrency(rows, "targetCurrency", "targetAmount")]

-----------------------------------------------------------------------------
(* R5, the FX summary: settled payments that have a fiat leg.               *)

\* (fault) The fiat leg is asked before the receipt.
FxRowOfLeg(p) ==
  LET leg == IF p.fiat = None THEN None ELSE p.fiat.amount
      realized == Or(leg, Or(Stored(p, "targetAmount"), Or(p.quote, 0)))
  IN [sourceAsset |-> Or(Stored(p, "sourceAsset"), p.asset),
      sourceAmount |-> Or(Stored(p, "sourceAmount"), p.source),
      targetCurrency |-> Or(Stored(p, "targetCurrency"), p.target),
      realized |-> realized, reference |-> Or(p.quote, realized),
      gainLoss |-> realized - Or(p.quote, realized),
      txHash |-> Or(Stored(p, "txHash"), LegTx(p)),
      bankRef |-> Or(Stored(p, "bankRef"), LegRef(p))]

FxRow(p) ==
  LET leg       == IF p.fiat = None THEN None ELSE p.fiat.amount
      realized  == Or(Stored(p, "targetAmount"), Or(leg, Or(p.quote, 0)))
      reference == Or(p.quote, realized)
  IN [sourceAsset    |-> Or(Stored(p, "sourceAsset"), p.asset),
      sourceAmount   |-> Or(Stored(p, "sourceAmount"), p.source),
      targetCurrency |-> Or(Stored(p, "targetCurrency"), p.target),
      realized       |-> realized,
      reference      |-> reference,
      gainLoss       |-> realized - reference,
      txHash         |-> Or(Stored(p, "txHash"), LegTx(p)),
      bankRef        |-> Or(Stored(p, "bankRef"), LegRef(p))]

\* Per pair of currencies: what was realized, expected and gained.
Aggregate(rows) ==
  LET pair(p) == <<rows[p].sourceAsset, rows[p].targetCurrency>>
      sum(c, field) == Total(rows, {p \in DOMAIN rows : pair(p) = c}, field)
  IN [c \in {pair(p) : p \in DOMAIN rows} |->
        [realized |-> sum(c, "realized"), reference |-> sum(c, "reference"),
         gainLoss |-> sum(c, "realized") - sum(c, "reference")]]

FxSummary(ledger) ==
  LET fiat == {p \in HasStatus(ledger, "SETTLED") : ledger[p].fiat # None}
      rows == [p \in fiat |-> FxRow(ledger[p])]
  IN [rows |-> rows, aggregates |-> Aggregate(rows)]

-----------------------------------------------------------------------------
(* R4, the attestation of one settled payment: the facts its issuer signs.  *)

Attestation(p) ==
  LET paid == Or(Stored(p, "sourceAmount"), p.source) IN
  [sourceAsset    |-> Or(Stored(p, "sourceAsset"), p.asset),
   sourceAmount   |-> paid,
   targetCurrency |-> Or(Stored(p, "targetCurrency"), p.target),
   targetAmount   |-> Or(Stored(p, "targetAmount"), Or(p.quote, paid)),
   txHash         |-> Or(Stored(p, "txHash"), LegTx(p)),
   bankRef        |-> Or(Stored(p, "bankRef"), LegRef(p)),
   receiptId      |-> Stored(p, "id")]

-----------------------------------------------------------------------------
(* R2, an entry of the disclosure pack, without what the view key reveals.  *)

Entry(p) ==
  [status    |-> p.status,
   txHash    |-> Or(Stored(p, "txHash"), LegTx(p)),
   bankRef   |-> Or(Stored(p, "bankRef"), LegRef(p)),
   receiptId |-> Stored(p, "id")]
=============================================================================
